---------------------------- MODULE Spec2Model ----------------------------
(***************************************************************************)
(* A model of the Disney material of rs_pbrt (src/src/materials/disney.rs):*)
(* the lobe factory DisneyMaterial::compute_scattering_functions and the   *)
(* Disney lobes it builds; and of read_float_file                          *)
(* (src/src/core/floatfile.rs), which reads the floats of a text file.     *)
(*                                                                         *)
(* Numbers.  A Float is modelled as an exact rational [n |-> , d |-> ]     *)
(* in lowest terms with d > 0, so that the arithmetic of the code is the   *)
(* arithmetic of the reals it approximates.  sqrt is exact on a perfect    *)
(* square and rounded down to 1/SqrtPrec otherwise; log10 is exact on the  *)
(* powers of ten the model feeds it; pi is the rational 22/7.              *)
(* A Spectrum is a triple of Floats; an Option is <<>> (None) or <<x>>     *)
(* (Some(x)).                                                              *)
(***************************************************************************)
EXTENDS Integers, Sequences, FiniteSets, TLC

\* ------------------------------------------------------------------------
\* Bounds of the model
\* ------------------------------------------------------------------------

\* The weight textures (metallic, spec_trans, flatness, diff_trans) take the
\* values k/Grid, k \in 0..Grid.
Grid == 2

\* the rendering workers that call the factory on one material
NumWorkers == 2

\* Resolution of a square root that is not exact.
SqrtPrec == 100

\* the lines of a float file
MaxLines == 2

\* ------------------------------------------------------------------------
\* Float arithmetic (exact rationals)
\* ------------------------------------------------------------------------

Abs(x) == IF x < 0 THEN -x ELSE x

RECURSIVE GCD(_, _)
GCD(a, b) == IF b = 0 THEN a ELSE GCD(b, a % b)

\* n/d in lowest terms, d > 0
Rat(n, d) ==
    LET g == GCD(Abs(n), d)
    IN  [n |-> n \div g, d |-> d \div g]

F(n) == [n |-> n, d |-> 1]

Zero == F(0)

One == F(1)

RNeg(a) == [n |-> -(a.n), d |-> a.d]

RAdd(a, b) ==
    LET g == GCD(a.d, b.d)
    IN  Rat(a.n * (b.d \div g) + b.n * (a.d \div g), (a.d \div g) * b.d)

RSub(a, b) == RAdd(a, RNeg(b))

\* a * b, cancelling across before multiplying
RMul(a, b) ==
    LET g1 == GCD(Abs(a.n), b.d)
        g2 == GCD(Abs(b.n), a.d)
    IN  [n |-> (a.n \div g1) * (b.n \div g2),
         d |-> (a.d \div g2) * (b.d \div g1)]

\* 1 / b, for b # 0
RInv(b) == IF b.n > 0 THEN [n |-> b.d, d |-> b.n]
                      ELSE [n |-> -(b.d), d |-> -(b.n)]

RDiv(a, b) == RMul(a, RInv(b))

RLt(a, b) == a.n * b.d < b.n * a.d

RLe(a, b) == a.n * b.d <= b.n * a.d

RGt(a, b) == RLt(b, a)

RMax(a, b) == IF RLt(a, b) THEN b ELSE a

RMin(a, b) == IF RLt(b, a) THEN b ELSE a

sqr(x) == RMul(x, x)

\* floor of the square root of a natural number, by bisection
RECURSIVE ISqrtB(_, _, _)
ISqrtB(n, lo, hi) ==
    IF lo >= hi THEN lo
    ELSE LET mid == (lo + hi + 1) \div 2
         IN  IF mid * mid <= n THEN ISqrtB(n, mid, hi)
                               ELSE ISqrtB(n, lo, mid - 1)

ISqrt(n) == ISqrtB(n, 0, IF n < 46340 THEN n ELSE 46340)

IsSquare(n) == ISqrt(n) * ISqrt(n) = n

\* Float::sqrt of x >= 0: exact when the root is a rational, rounded down to
\* a multiple of 1/SqrtPrec otherwise
FSqrt(x) ==
    IF IsSquare(x.n) /\ IsSquare(x.d)
    THEN [n |-> ISqrt(x.n), d |-> ISqrt(x.d)]
    ELSE Rat(ISqrt((x.n * SqrtPrec * SqrtPrec) \div x.d), SqrtPrec)

\* lerp(t, v1, v2) = (1 - t) * v1 + t * v2
lerp(t, v1, v2) == RAdd(RMul(RSub(One, t), v1), RMul(t, v2))

clamp_t(val, low, high) ==
    IF RLt(val, low) THEN low ELSE IF RGt(val, high) THEN high ELSE val

\* ------------------------------------------------------------------------
\* Option and Spectrum
\* ------------------------------------------------------------------------

None == <<>>

Some(x) == <<x>>

IsSome(o) == o # None

Unwrap(o) == o[1]

SFrom(v) == <<v, v, v>>

SZero == SFrom(Zero)

\* Spectrum * Spectrum, component-wise
SMul(s1, s2) == <<RMul(s1[1], s2[1]), RMul(s1[2], s2[2]), RMul(s1[3], s2[3])>>

\* Float * Spectrum
SScale(v, s) == <<RMul(v, s[1]), RMul(v, s[2]), RMul(v, s[3])>>

\* Spectrum / Float
SDivF(s, v) == <<RDiv(s[1], v), RDiv(s[2], v), RDiv(s[3], v)>>

SAdd(s1, s2) == <<RAdd(s1[1], s2[1]), RAdd(s1[2], s2[2]), RAdd(s1[3], s2[3])>>

SIsBlack(s) == s[1].n = 0 /\ s[2].n = 0 /\ s[3].n = 0

SSqrt(s) == <<FSqrt(s[1]), FSqrt(s[2]), FSqrt(s[3])>>

\* Spectrum::clamp(0, infinity)
SClampLow(s) == <<RMax(s[1], Zero), RMax(s[2], Zero), RMax(s[3], Zero)>>

\* Spectrum::y(), the luminance of an RGB spectrum
SY(s) == RAdd(RAdd(RMul(Rat(212671, 1000000), s[1]),
                   RMul(Rat(715160, 1000000), s[2])),
              RMul(Rat(72169, 1000000), s[3]))

\* lerp on spectra
SLerp(t, s1, s2) == SAdd(SScale(RSub(One, t), s1), SScale(t, s2))

\* ------------------------------------------------------------------------
\* The textures of a DisneyMaterial at the shading point
\* ------------------------------------------------------------------------

\* k/Grid for k \in 0..Grid: the unit interval, end points included
UnitGrid == {Rat(k, Grid) : k \in 0..Grid}

\* a value a texture can return outside [0,1]
AboveOne == Rat(3, 2)

Black == SFrom(Zero)

White == SFrom(One)

Colors == {Black, SFrom(Rat(1, 4)), <<One, Rat(1, 4), Zero>>}

ScatterDistances == {Black, SFrom(One)}

\* the optional uniform scale of a call: absent, or a spectrum that is not
\* the identity
Scales == {None, Some(SFrom(F(2)))}

Modes == {"Radiance"}

Roughnesses == {Zero, Rat(1, 2)}

\* eta: the default 1.5, and the root of 0.65 * eta - 0.35
Etas == {Rat(3, 2), Rat(7, 13)}

\* anisotropic: aspect = sqrt(1 - 0.9 * anisotropic) is 1 and 1/2
Anisotropics == {Zero, Rat(5, 6)}

SheenWeights == {Zero, Rat(1, 2)}

SheenTints == {Rat(1, 2)}

ClearCoats == {Zero, One}

ClearCoatGlosses == {Zero, One}

SpecularTints == {Zero}

\* DisneyMaterial::create with an empty parameter list: the defaults
DefaultMaterial ==
    [color |-> SFrom(Rat(1, 2)),
     metallic |-> Zero,
     eta |-> Rat(3, 2),
     roughness |-> Rat(1, 2),
     specular_tint |-> Zero,
     anisotropic |-> Zero,
     sheen |-> Zero,
     sheen_tint |-> Rat(1, 2),
     clearcoat |-> Zero,
     clearcoat_gloss |-> One,
     spec_trans |-> Zero,
     scatter_distance |-> SFrom(Zero),
     flatness |-> Zero,
     diff_trans |-> One,
     bump_map |-> FALSE,
     thin |-> FALSE]

\* ------------------------------------------------------------------------
\* Helpers of disney.rs
\* ------------------------------------------------------------------------

PI == Rat(22, 7)

FRAC_1_PI == RInv(PI)

schlick_weight(cos_theta) ==
    LET m == clamp_t(RSub(One, cos_theta), Zero, One)
    IN  RMul(RMul(RMul(m, m), RMul(m, m)), m)

schlick_r0_from_eta(eta) == RDiv(sqr(RSub(eta, One)), sqr(RAdd(eta, One)))

\* TrowbridgeReitzDistribution::new(alphax, alphay, true)
TrowbridgeReitzNew(alphax, alphay, samplevis) ==
    [alpha_x |-> alphax, alpha_y |-> alphay, sample_visible_area |-> samplevis]

DisneyMicrofacetDistributionNew(alphax, alphay) ==
    [inner |-> TrowbridgeReitzNew(alphax, alphay, TRUE)]

\* ------------------------------------------------------------------------
\* The lobes (enum Bxdf)
\* ------------------------------------------------------------------------

DisneyDiffuseNew(r, sc_opt) ==
    [kind |-> "DisDiff", r |-> r, sc_opt |-> sc_opt]

DisneyFakeSSNew(r, roughness, sc_opt) ==
    [kind |-> "DisSS", r |-> r, roughness |-> roughness, sc_opt |-> sc_opt]

DisneyRetroNew(r, roughness, sc_opt) ==
    [kind |-> "DisRetro", r |-> r, roughness |-> roughness, sc_opt |-> sc_opt]

DisneySheenNew(r, sc_opt) ==
    [kind |-> "DisSheen", r |-> r, sc_opt |-> sc_opt]

DisneyClearCoatNew(weight, gloss, sc_opt) ==
    [kind |-> "DisClearCoat", weight |-> weight, gloss |-> gloss,
     sc_opt |-> sc_opt]

SpecularTransmissionNew(t, eta_a, eta_b, mode, sc_opt) ==
    [kind |-> "SpecTrans", t |-> t, eta_a |-> eta_a, eta_b |-> eta_b,
     mode |-> mode, sc_opt |-> sc_opt]

MicrofacetReflectionNew(r, distribution, fresnel, sc_opt) ==
    [kind |-> "MicrofacetRefl", r |-> r, distribution |-> distribution,
     fresnel |-> fresnel, sc_opt |-> sc_opt]

MicrofacetTransmissionNew(t, distribution, eta_a, eta_b, mode, sc_opt) ==
    [kind |-> "MicrofacetTrans", t |-> t, distribution |-> distribution,
     eta_a |-> eta_a, eta_b |-> eta_b, mode |-> mode, sc_opt |-> sc_opt]

LambertianTransmissionNew(t, sc_opt) ==
    [kind |-> "LambertianTrans", t |-> t, sc_opt |-> sc_opt]

DisneyFresnelNew(r0, metallic, eta) ==
    [r0 |-> r0, metallic |-> metallic, eta |-> eta]


\* ------------------------------------------------------------------------
\* DisneyMaterial::compute_scattering_functions
\* ------------------------------------------------------------------------

\* the sc_opt argument each constructor call receives: Some(sc) in the
\* use_scale branch, None in the other
ScArg(use_scale, sc) == IF use_scale THEN Some(sc) ELSE None

\* Locals with diffuse_weight = 1 - metallic - spec_trans
LocalsWeightBySum(m, mode, scale_opt) ==
    LET c == SClampLow(m.color)
        lum == SY(c)
        c_tint == IF RGt(lum, Zero) THEN SDivF(c, lum) ELSE SFrom(One)
        sheen_weight == m.sheen
    IN  [use_scale |-> IsSome(scale_opt),
         sc |-> IF IsSome(scale_opt) THEN Unwrap(scale_opt) ELSE SZero,
         mode |-> mode,
         c |-> c,
         metallic_weight |-> m.metallic,
         e |-> m.eta,
         strans |-> m.spec_trans,
         diffuse_weight |-> RSub(RSub(One, m.metallic), m.spec_trans),
         dt |-> RDiv(m.diff_trans, F(2)),
         rough |-> m.roughness,
         c_tint |-> c_tint,
         sheen_weight |-> sheen_weight,
         c_sheen |-> IF RGt(sheen_weight, Zero)
                     THEN SLerp(m.sheen_tint, SFrom(One), c_tint)
                     ELSE SZero,
         aspect |-> FSqrt(RSub(One, RMul(m.anisotropic, Rat(9, 10))))]

\* the locals of a call on material m, in the order the code computes them
Locals(m, mode, scale_opt) ==
    LET c == SClampLow(m.color)
        lum == SY(c)
        c_tint == IF RGt(lum, Zero) THEN SDivF(c, lum) ELSE SFrom(One)
        sheen_weight == m.sheen
    IN  [use_scale |-> IsSome(scale_opt),
         sc |-> IF IsSome(scale_opt) THEN Unwrap(scale_opt) ELSE SZero,
         mode |-> mode,
         c |-> c,
         metallic_weight |-> m.metallic,
         e |-> m.eta,
         strans |-> m.spec_trans,
         diffuse_weight |-> RMul(RSub(One, m.metallic), RSub(One, m.spec_trans)),
         dt |-> RDiv(m.diff_trans, F(2)),
         rough |-> m.roughness,
         c_tint |-> c_tint,
         sheen_weight |-> sheen_weight,
         c_sheen |-> IF RGt(sheen_weight, Zero)
                     THEN SLerp(m.sheen_tint, SFrom(One), c_tint)
                     ELSE SZero,
         aspect |-> FSqrt(RSub(One, RMul(m.anisotropic, Rat(9, 10))))]

\* DiffuseOrSubsurface with the test of sd.is_black() inverted
DiffuseOrSubsurfaceInverted(m, L) ==
    IF m.thin
    THEN << DisneyDiffuseNew(
               SScale(RMul(RMul(L.diffuse_weight, RSub(One, m.flatness)),
                           RSub(One, L.dt)), L.c),
               ScArg(L.use_scale, L.sc)),
            DisneyFakeSSNew(
               SScale(RMul(RMul(L.diffuse_weight, m.flatness),
                           RSub(One, L.dt)), L.c),
               L.rough,
               ScArg(L.use_scale, L.sc)) >>
    ELSE IF ~SIsBlack(m.scatter_distance)
         THEN << DisneyDiffuseNew(SScale(L.diffuse_weight, L.c),
                                  ScArg(L.use_scale, L.sc)) >>
         ELSE << SpecularTransmissionNew(SFrom(One), One, L.e, L.mode,
                                         ScArg(L.use_scale, L.sc)) >>

\* DiffuseOrSubsurface with the diffuse lobe kept beside the
\* specular-transmission lobe when the scatter distance is not black
DiffuseOrSubsurfaceKeepsDiffuse(m, L) ==
    IF m.thin
    THEN << DisneyDiffuseNew(
               SScale(RMul(RMul(L.diffuse_weight, RSub(One, m.flatness)),
                           RSub(One, L.dt)), L.c),
               ScArg(L.use_scale, L.sc)),
            DisneyFakeSSNew(
               SScale(RMul(RMul(L.diffuse_weight, m.flatness),
                           RSub(One, L.dt)), L.c),
               L.rough,
               ScArg(L.use_scale, L.sc)) >>
    ELSE IF SIsBlack(m.scatter_distance)
         THEN << DisneyDiffuseNew(SScale(L.diffuse_weight, L.c),
                                  ScArg(L.use_scale, L.sc)) >>
         ELSE << DisneyDiffuseNew(SScale(L.diffuse_weight, L.c),
                                  ScArg(L.use_scale, L.sc)),
                 SpecularTransmissionNew(SFrom(One), One, L.e, L.mode,
                                         ScArg(L.use_scale, L.sc)) >>

\* the diffuse, fake-subsurface or specular-transmission lobe of the branch
\* "if diffuse_weight > 0.0"
DiffuseOrSubsurface(m, L) ==
    IF m.thin
    THEN << DisneyDiffuseNew(
               SScale(RMul(RMul(L.diffuse_weight, RSub(One, m.flatness)),
                           RSub(One, L.dt)), L.c),
               ScArg(L.use_scale, L.sc)),
            DisneyFakeSSNew(
               SScale(RMul(RMul(L.diffuse_weight, m.flatness),
                           RSub(One, L.dt)), L.c),
               L.rough,
               ScArg(L.use_scale, L.sc)) >>
    ELSE IF SIsBlack(m.scatter_distance)
         THEN << DisneyDiffuseNew(SScale(L.diffuse_weight, L.c),
                                  ScArg(L.use_scale, L.sc)) >>
         ELSE << SpecularTransmissionNew(SFrom(One), One, L.e, L.mode,
                                         ScArg(L.use_scale, L.sc)) >>

RetroLobe(m, L) ==
    << DisneyRetroNew(SScale(L.diffuse_weight, L.c), L.rough,
                      ScArg(L.use_scale, L.sc)) >>

\* SheenLobes with the sheen lobe tinted by the colour itself
SheenLobesUntinted(m, L) ==
    IF RGt(L.sheen_weight, Zero)
    THEN << DisneySheenNew(
               SScale(RMul(L.diffuse_weight, L.sheen_weight), L.c),
               ScArg(L.use_scale, L.sc)) >>
    ELSE << >>

SheenLobes(m, L) ==
    IF RGt(L.sheen_weight, Zero)
    THEN << DisneySheenNew(
               SScale(RMul(L.diffuse_weight, L.sheen_weight), L.c_sheen),
               ScArg(L.use_scale, L.sc)) >>
    ELSE << >>

\* DiffuseLobes with the retro-reflection and sheen lobes pushed after the
\* closing brace of "if diffuse_weight > 0.0"
DiffuseLobesRetroOutside(m, L) ==
    (IF RGt(L.diffuse_weight, Zero) THEN DiffuseOrSubsurface(m, L) ELSE << >>)
      \o RetroLobe(m, L) \o SheenLobes(m, L)

\* lines 125-214: everything under "if diffuse_weight > 0.0"
DiffuseLobes(m, L) ==
    IF RGt(L.diffuse_weight, Zero)
    THEN DiffuseOrSubsurface(m, L) \o RetroLobe(m, L) \o SheenLobes(m, L)
    ELSE << >>

\* Distrib without the floor Float::max(0.001, ..)
DistribNoFloor(m, L) ==
    LET ax == RDiv(sqr(L.rough), L.aspect)
        ay == RMul(sqr(L.rough), L.aspect)
    IN  DisneyMicrofacetDistributionNew(ax, ay)

\* the microfacet distribution for metallic and/or specular transmission
Distrib(m, L) ==
    LET ax == RMax(Rat(1, 1000), RDiv(sqr(L.rough), L.aspect))
        ay == RMax(Rat(1, 1000), RMul(sqr(L.rough), L.aspect))
    IN  DisneyMicrofacetDistributionNew(ax, ay)

\* ReflectionLobe pushed only for a metallic surface
ReflectionLobeIfMetallic(m, L) ==
    IF RGt(L.metallic_weight, Zero)
    THEN << MicrofacetReflectionNew(
               L.c, Distrib(m, L),
               DisneyFresnelNew(L.c, L.metallic_weight, L.e),
               ScArg(L.use_scale, L.sc)) >>
    ELSE << >>

ReflectionLobe(m, L) ==
    LET spec_tint == m.specular_tint
        cspec0 == SLerp(L.metallic_weight,
                        SScale(schlick_r0_from_eta(L.e),
                               SLerp(spec_tint, SFrom(One), L.c_tint)),
                        L.c)
        fresnel == DisneyFresnelNew(cspec0, L.metallic_weight, L.e)
    IN  << MicrofacetReflectionNew(L.c, Distrib(m, L), fresnel,
                                   ScArg(L.use_scale, L.sc)) >>

\* ClearCoatLobes with clearcoat_gloss itself for the gloss of the lobe
ClearCoatLobesRawGloss(m, L) ==
    LET cc == m.clearcoat
    IN  IF RGt(cc, Zero)
        THEN << DisneyClearCoatNew(cc, m.clearcoat_gloss,
                                   ScArg(L.use_scale, L.sc)) >>
        ELSE << >>

ClearCoatLobes(m, L) ==
    LET cc == m.clearcoat
    IN  IF RGt(cc, Zero)
        THEN << DisneyClearCoatNew(
                   cc,
                   lerp(m.clearcoat_gloss, Rat(1, 10), Rat(1, 1000)),
                   ScArg(L.use_scale, L.sc)) >>
        ELSE << >>

\* TransmissionLobes with "strans >= 0.0" for "strans > 0.0"
TransmissionLobesGe(m, L) ==
    IF RLe(Zero, L.strans)
    THEN << MicrofacetTransmissionNew(
               SScale(L.strans, SSqrt(L.c)), Distrib(m, L), One, L.e, L.mode,
               ScArg(L.use_scale, L.sc)) >>
    ELSE << >>

\* TransmissionLobes with the tint spec_trans * color, the square root
\* forgotten
TransmissionLobesNoSqrt(m, L) ==
    IF RGt(L.strans, Zero)
    THEN << MicrofacetTransmissionNew(
               SScale(L.strans, L.c), Distrib(m, L), One, L.e, L.mode,
               ScArg(L.use_scale, L.sc)) >>
    ELSE << >>

\* TransmissionLobes with the roughness of a thin surface not rescaled
TransmissionLobesUnscaled(m, L) ==
    IF RGt(L.strans, Zero)
    THEN LET t == SScale(L.strans, SSqrt(L.c))
         IN  IF m.thin
             THEN LET ax == RMax(Rat(1, 1000), RDiv(sqr(L.rough), L.aspect))
                      ay == RMax(Rat(1, 1000), RMul(sqr(L.rough), L.aspect))
                      scaled_distrib == TrowbridgeReitzNew(ax, ay, TRUE)
                  IN  << MicrofacetTransmissionNew(
                             t, scaled_distrib, One, L.e, L.mode,
                             ScArg(L.use_scale, L.sc)) >>
             ELSE << MicrofacetTransmissionNew(
                        t, Distrib(m, L), One, L.e, L.mode,
                        ScArg(L.use_scale, L.sc)) >>
    ELSE << >>

TransmissionLobes(m, L) ==
    IF RGt(L.strans, Zero)
    THEN LET t == SScale(L.strans, SSqrt(L.c))
         IN  IF m.thin
             THEN LET rscaled == RMul(RSub(RMul(Rat(65, 100), L.e),
                                           Rat(35, 100)), L.rough)
                      ax == RMax(Rat(1, 1000), RDiv(sqr(rscaled), L.aspect))
                      ay == RMax(Rat(1, 1000), RMul(sqr(rscaled), L.aspect))
                      scaled_distrib == TrowbridgeReitzNew(ax, ay, TRUE)
                  IN  << MicrofacetTransmissionNew(
                             t, scaled_distrib, One, L.e, L.mode,
                             ScArg(L.use_scale, L.sc)) >>
             ELSE << MicrofacetTransmissionNew(
                        t, Distrib(m, L), One, L.e, L.mode,
                        ScArg(L.use_scale, L.sc)) >>
    ELSE << >>

\* LambertianLobes weighted by the texture value, not by its half
LambertianLobesUnhalved(m, L) ==
    IF m.thin
    THEN << LambertianTransmissionNew(SScale(m.diff_trans, L.c),
                                      ScArg(L.use_scale, L.sc)) >>
    ELSE << >>

\* LambertianLobes pushed only when there is something to transmit
LambertianLobesIfPositive(m, L) ==
    IF m.thin /\ RGt(L.dt, Zero)
    THEN << LambertianTransmissionNew(SScale(L.dt, L.c),
                                      ScArg(L.use_scale, L.sc)) >>
    ELSE << >>

LambertianLobes(m, L) ==
    IF m.thin
    THEN << LambertianTransmissionNew(SScale(L.dt, L.c),
                                      ScArg(L.use_scale, L.sc)) >>
    ELSE << >>

\* ComputeScatteringFunctions with the clearcoat lobe pushed before the
\* reflection lobe
ComputeScatteringFunctionsCoatFirst(m, mode, scale_opt) ==
    LET L == Locals(m, mode, scale_opt)
    IN  DiffuseLobes(m, L) \o ClearCoatLobes(m, L) \o ReflectionLobe(m, L)
          \o TransmissionLobes(m, L) \o LambertianLobes(m, L)

\* the returned Vec<Bxdf>
ComputeScatteringFunctions(m, mode, scale_opt) ==
    LET L == Locals(m, mode, scale_opt)
    IN  DiffuseLobes(m, L) \o ReflectionLobe(m, L) \o ClearCoatLobes(m, L)
          \o TransmissionLobes(m, L) \o LambertianLobes(m, L)

\* A texture the call did not evaluate
NotEvaluated == [n |-> 0, d |-> 0]

DiffuseWeightOf(metallic, spec_trans) ==
    RMul(RSub(One, metallic), RSub(One, spec_trans))

\* The materials as a call reads them.  A texture that the call's path does
\* not evaluate (flatness outside the thin diffuse branch, scatter_distance
\* outside the non-thin diffuse branch, sheen_tint without sheen,
\* clearcoat_gloss without clearcoat) has no value in the call: it is
\* NotEvaluated, and any arithmetic on it fails.
Shadings ==
    UNION { UNION { UNION { UNION {
      [color : Colors,
       metallic : {met},
       eta : Etas,
       roughness : Roughnesses,
       specular_tint : SpecularTints,
       anisotropic : Anisotropics,
       sheen : {sh},
       sheen_tint : IF RGt(sh, Zero) THEN SheenTints ELSE {NotEvaluated},
       clearcoat : {cc},
       clearcoat_gloss : IF RGt(cc, Zero) THEN ClearCoatGlosses
                                          ELSE {NotEvaluated},
       spec_trans : {st},
       scatter_distance :
           IF RGt(DiffuseWeightOf(met, st), Zero) /\ ~th
           THEN ScatterDistances ELSE {SFrom(NotEvaluated)},
       flatness :
           IF RGt(DiffuseWeightOf(met, st), Zero) /\ th
           THEN UnitGrid ELSE {NotEvaluated},
       diff_trans : UnitGrid,
       bump_map : BOOLEAN,
       thin : {th}]
      : th \in BOOLEAN }
      : cc \in ClearCoats }
      : sh \in SheenWeights }
      : met \in UnitGrid \cup {AboveOne}, st \in UnitGrid }

\* ------------------------------------------------------------------------
\* Directions (Vector3f) in the local shading frame
\* ------------------------------------------------------------------------

V(x, y, z) == [x |-> x, y |-> y, z |-> z]

VZero == V(Zero, Zero, Zero)

VAdd(a, b) == V(RAdd(a.x, b.x), RAdd(a.y, b.y), RAdd(a.z, b.z))

VNeg(a) == V(RNeg(a.x), RNeg(a.y), RNeg(a.z))

VScale(a, k) == V(RMul(a.x, k), RMul(a.y, k), RMul(a.z, k))

vec3_dot_vec3(a, b) ==
    RAdd(RAdd(RMul(a.x, b.x), RMul(a.y, b.y)), RMul(a.z, b.z))

VLength(a) == FSqrt(vec3_dot_vec3(a, a))

\* Vector3f::normalize, of a vector that is not zero
Normalize(a) == VScale(a, RInv(VLength(a)))

abs_cos_theta(w) == [n |-> Abs(w.z.n), d |-> w.z.d]

vec3_same_hemisphere_vec3(w, wp) == RGt(RMul(w.z, wp.z), Zero)

\* reflect(wo, n) = -wo + 2 * dot(wo, n) * n
reflect(wo, n) ==
    VAdd(VNeg(wo), VScale(n, RMul(F(2), vec3_dot_vec3(wo, n))))

\* cos and sin of phi = 2 * PI * u1, for the quarter turns
CosPhi(u1) ==
    CASE u1 = Zero -> One
      [] u1 = Rat(1, 4) -> Zero
      [] u1 = Rat(1, 2) -> F(-1)
      [] u1 = Rat(3, 4) -> Zero

SinPhi(u1) ==
    CASE u1 = Zero -> Zero
      [] u1 = Rat(1, 4) -> One
      [] u1 = Rat(1, 2) -> Zero
      [] u1 = Rat(3, 4) -> F(-1)

\* spherical_direction(sin_theta, cos_theta, phi), phi = 2 * PI * u1
spherical_direction(sin_theta, cos_theta, u1) ==
    V(RMul(sin_theta, CosPhi(u1)), RMul(sin_theta, SinPhi(u1)), cos_theta)

\* Float::log10 of a power of ten (no other argument has a rational log10)
RECURSIVE Log10(_)
Log10(x) ==
    CASE x = One -> 0
      [] x.n = 1 /\ x.d > 1 /\ x.d % 10 = 0 ->
           Log10([n |-> 1, d |-> x.d \div 10]) - 1
      [] x.d = 1 /\ x.n > 1 /\ x.n % 10 = 0 ->
           Log10([n |-> x.n \div 10, d |-> 1]) + 1

\* fr_schlick(r0, cos_theta) = lerp(schlick_weight(cos_theta), r0, 1)
fr_schlick(r0, cos_theta) == lerp(schlick_weight(cos_theta), r0, One)

gtr1(cos_theta, alpha) ==
    LET alpha2 == RMul(alpha, alpha)
    IN  RDiv(RSub(alpha2, One),
             RMul(RMul(PI, F(Log10(alpha2))),
                  RAdd(One, RMul(RMul(RSub(alpha2, One), cos_theta),
                                 cos_theta))))

smith_g_ggx(cos_theta, alpha) ==
    LET alpha2 == RMul(alpha, alpha)
        cos_theta2 == RMul(cos_theta, cos_theta)
    IN  RInv(RAdd(cos_theta,
                  FSqrt(RSub(RAdd(alpha2, cos_theta2),
                             RMul(alpha2, cos_theta2)))))

\* ------------------------------------------------------------------------
\* DisneyClearCoat
\* ------------------------------------------------------------------------

IsZeroVector(wh) == wh.x = Zero /\ wh.y = Zero /\ wh.z = Zero

\* DisneyClearCoat::f
ClearCoatF(self, wo, wi) ==
    IF IsZeroVector(VAdd(wi, wo))
    THEN SFrom(Zero)
    ELSE LET wh == Normalize(VAdd(wi, wo))
             dr == gtr1(abs_cos_theta(wh), self.gloss)
             fr == fr_schlick(Rat(4, 100), vec3_dot_vec3(wo, wh))
             gr == RMul(smith_g_ggx(abs_cos_theta(wo), Rat(25, 100)),
                        smith_g_ggx(abs_cos_theta(wi), Rat(25, 100)))
             v == RDiv(RMul(RMul(RMul(self.weight, gr), fr), dr), F(4))
         IN  IF IsSome(self.sc_opt)
             THEN SMul(Unwrap(self.sc_opt), SFrom(v))
             ELSE SFrom(v)

\* DisneyClearCoat::pdf
ClearCoatPdf(self, wo, wi) ==
    IF ~vec3_same_hemisphere_vec3(wo, wi)
    THEN Zero
    ELSE IF IsZeroVector(VAdd(wo, wi))
         THEN Zero
         ELSE LET wh == Normalize(VAdd(wo, wi))
                  dr == gtr1(abs_cos_theta(wh), self.gloss)
              IN  RDiv(RMul(dr, abs_cos_theta(wh)),
                       RMul(F(4), vec3_dot_vec3(wo, wh)))

\* The half vector sample_f draws for the sample u.  u.pow is the value of
\* Float::powf(alpha2, 1.0 - u[0]), which runs from alpha2 to 1 as u[0] runs
\* from 0 to 1; u.u1 is u[1].
SampledWh(self, wo, u) ==
    LET alpha2 == RMul(self.gloss, self.gloss)
        cos_theta == FSqrt(RMax(Zero, RDiv(RSub(One, u.pow),
                                           RSub(One, alpha2))))
        sin_theta == FSqrt(RMax(Zero, RSub(One, RMul(cos_theta, cos_theta))))
        wh == spherical_direction(sin_theta, cos_theta, u.u1)
    IN  IF ~vec3_same_hemisphere_vec3(wo, wh) THEN VNeg(wh) ELSE wh

\* DisneyClearCoat::sample_f(wo, &mut wi, u, &mut pdf, _): the returned
\* Spectrum (ret) and what the call leaves in the caller's wi and pdf, which
\* held wi0 and pdf0 before the call
ClearCoatSampleF(self, wo, wi0, u, pdf0) ==
    IF wo.z = Zero
    THEN [ret |-> SZero, wi |-> wi0, pdf |-> pdf0]
    ELSE LET wi == reflect(wo, SampledWh(self, wo, u))
         IN  IF ~vec3_same_hemisphere_vec3(wo, wi)
             THEN [ret |-> SZero, wi |-> wi, pdf |-> pdf0]
             ELSE [ret |-> IF IsSome(self.sc_opt)
                           THEN SMul(Unwrap(self.sc_opt),
                                     ClearCoatF(self, wo, wi))
                           ELSE ClearCoatF(self, wo, wi),
                   wi |-> wi,
                   pdf |-> ClearCoatPdf(self, wo, wi)]

\* The vectors an f of DisneyFakeSS, DisneyRetro, DisneySheen or
\* DisneyClearCoat passes to normalize: wh = wi + wo, unless it is the zero
\* vector, on which f returns before the normalize.
HalfVectorNormalized(wo, wi) ==
    IF IsZeroVector(VAdd(wi, wo)) THEN {} ELSE {VAdd(wi, wo)}

\* The vectors DisneyClearCoat::pdf passes to normalize: none when it
\* returns on the hemisphere test or on the zero half vector.
ClearCoatPdfNormalized(wo, wi) ==
    IF ~vec3_same_hemisphere_vec3(wo, wi)
    THEN {}
    ELSE IF IsZeroVector(VAdd(wo, wi)) THEN {} ELSE {VAdd(wo, wi)}

\* The vectors DisneyClearCoat::sample_f passes to normalize, through its
\* calls of pdf and f on (wo, wi), wi being the direction it has written.
ClearCoatSampleFNormalized(wo, wi) ==
    IF wo.z = Zero \/ ~vec3_same_hemisphere_vec3(wo, wi)
    THEN {}
    ELSE ClearCoatPdfNormalized(wo, wi) \cup HalfVectorNormalized(wo, wi)

\* ------------------------------------------------------------------------
\* Non-finite Floats: what a division by zero leaves, and how it propagates
\* ------------------------------------------------------------------------

Inf == [n |-> 1, d |-> 0]

NegInf == [n |-> -1, d |-> 0]

NaN == [n |-> 0, d |-> 0]

IsFinite(x) == x.d # 0

Sign(x) == IF x.n > 0 THEN 1 ELSE IF x.n < 0 THEN -1 ELSE 0

\* 1.0 / x for x >= 0: +inf on x = 0.0
XInv(x) == IF x = Zero THEN Inf ELSE RInv(x)

XAdd(a, b) ==
    IF IsFinite(a) /\ IsFinite(b) THEN RAdd(a, b)
    ELSE IF a = NaN \/ b = NaN THEN NaN
    ELSE IF ~IsFinite(a) /\ ~IsFinite(b) /\ a # b THEN NaN
    ELSE IF IsFinite(a) THEN b ELSE a

XMul(a, b) ==
    IF IsFinite(a) /\ IsFinite(b) THEN RMul(a, b)
    ELSE IF a = NaN \/ b = NaN \/ a = Zero \/ b = Zero THEN NaN
    ELSE IF Sign(a) * Sign(b) > 0 THEN Inf ELSE NegInf

\* the comparisons == and >= 0.0 of Floats: false on NaN
FEq(a, b) == a # NaN /\ b # NaN /\ a = b

FGe0(a) == a = Inf \/ (IsFinite(a) /\ RLe(Zero, a))

\* Spectrum * Float, the Float possibly not finite
SScaleX(s, v) == <<XMul(s[1], v), XMul(s[2], v), XMul(s[3], v)>>

SIsFinite(s) == IsFinite(s[1]) /\ IsFinite(s[2]) /\ IsFinite(s[3])

SEq(s1, s2) == FEq(s1[1], s2[1]) /\ FEq(s1[2], s2[2]) /\ FEq(s1[3], s2[3])

SGe0(s) == FGe0(s[1]) /\ FGe0(s[2]) /\ FGe0(s[3])

\* ------------------------------------------------------------------------
\* DisneyDiffuse, DisneyFakeSS, DisneyRetro, DisneySheen
\* ------------------------------------------------------------------------

\* sc * self.r with Some(sc), self.r with None
ScaledR(self) ==
    IF IsSome(self.sc_opt) THEN SMul(Unwrap(self.sc_opt), self.r) ELSE self.r

\* vec3_dot_vec3(wi, &wh) on wh = (wi + wo).normalize(), wi + wo not zero
CosThetaD(wo, wi) == vec3_dot_vec3(wi, Normalize(VAdd(wi, wo)))

\* DisneyDiffuse::f
DisneyDiffuseF(self, wo, wi) ==
    LET fo == schlick_weight(abs_cos_theta(wo))
        fi == schlick_weight(abs_cos_theta(wi))
    IN  SScale(RSub(One, RDiv(fi, F(2))),
               SScale(RSub(One, RDiv(fo, F(2))),
                      SScale(FRAC_1_PI, ScaledR(self))))

\* DisneyFakeSS::f
DisneyFakeSSF(self, wo, wi) ==
    IF IsZeroVector(VAdd(wi, wo))
    THEN SFrom(Zero)
    ELSE LET cos_theta_d == CosThetaD(wo, wi)
             fss90 == RMul(RMul(cos_theta_d, cos_theta_d), self.roughness)
             fo == schlick_weight(abs_cos_theta(wo))
             fi == schlick_weight(abs_cos_theta(wi))
             fss == RMul(lerp(fo, One, fss90), lerp(fi, One, fss90))
             ss == XMul(Rat(5, 4),
                        XAdd(XMul(fss,
                                  XAdd(XInv(RAdd(abs_cos_theta(wo),
                                                 abs_cos_theta(wi))),
                                       Rat(-1, 2))),
                             Rat(1, 2)))
         IN  SScaleX(SScale(FRAC_1_PI, ScaledR(self)), ss)

\* DisneyRetro::f
DisneyRetroF(self, wo, wi) ==
    IF IsZeroVector(VAdd(wi, wo))
    THEN SFrom(Zero)
    ELSE LET cos_theta_d == CosThetaD(wo, wi)
             fo == schlick_weight(abs_cos_theta(wo))
             fi == schlick_weight(abs_cos_theta(wi))
             rr == RMul(RMul(RMul(F(2), self.roughness), cos_theta_d),
                        cos_theta_d)
         IN  SScale(RAdd(RAdd(fo, fi),
                         RMul(RMul(fo, fi), RSub(rr, One))),
                    SScale(rr, SScale(FRAC_1_PI, ScaledR(self))))

\* DisneySheen::f with the zero half vector read as cos_theta_d = 0
DisneySheenFZeroCosine(self, wo, wi) ==
    IF IsZeroVector(VAdd(wi, wo))
    THEN SScale(schlick_weight(Zero), ScaledR(self))
    ELSE SScale(schlick_weight(CosThetaD(wo, wi)), ScaledR(self))

\* DisneySheen::f
DisneySheenF(self, wo, wi) ==
    IF IsZeroVector(VAdd(wi, wo))
    THEN SFrom(Zero)
    ELSE SScale(schlick_weight(CosThetaD(wo, wi)), ScaledR(self))

\* Bxdf::f: the f of the lobe's kind
BxdfF(self, wo, wi) ==
    CASE self.kind = "DisDiff" -> DisneyDiffuseF(self, wo, wi)
      [] self.kind = "DisSS" -> DisneyFakeSSF(self, wo, wi)
      [] self.kind = "DisRetro" -> DisneyRetroF(self, wo, wi)
      [] self.kind = "DisSheen" -> DisneySheenF(self, wo, wi)
      [] self.kind = "DisClearCoat" -> ClearCoatF(self, wo, wi)

\* the vectors that f passes to normalize: DisneyDiffuse::f has none
BxdfFNormalized(self, wo, wi) ==
    IF self.kind = "DisDiff" THEN {} ELSE HalfVectorNormalized(wo, wi)

\* ------------------------------------------------------------------------
\* The lobes, directions and samples of the lobe specification
\* ------------------------------------------------------------------------

\* the clearcoat lobes the factory builds: clearcoat > 0, gloss =
\* lerp(clearcoat_gloss, 0.1, 0.001) with clearcoat_gloss = 0
TestLobes ==
    {DisneyClearCoatNew(w, Rat(1, 10), sc) :
        w \in {Rat(1, 2), One}, sc \in Scales}

\* the outgoing directions: the normal, its opposite (the other
\* hemisphere), and a grazing direction (z = 0)
Directions ==
    {V(Zero, Zero, One),
     V(Zero, Zero, F(-1)),
     V(One, Zero, Zero)}

\* what the caller's wi may hold before a query on wo: the default vector,
\* wo itself, or its opposite
PriorWis(w) == {VZero, w, VNeg(w)}

\* the cosines of the sampled half vector
CosThetas == {Zero, Rat(3, 5), Rat(4, 5), One}

\* the samples u for a lobe: u.pow = powf(alpha2, 1 - u[0]) is such that
\* cos_theta is one of CosThetas, u.u1 = u[1] is a quarter turn
Samples(self) ==
    [pow : {RSub(One, RMul(RSub(One, RMul(self.gloss, self.gloss)),
                           RMul(c, c))) : c \in CosThetas},
     u1 : {Zero, Rat(1, 4), Rat(1, 2), Rat(3, 4)}]

NoSample == [pow |-> One, u1 |-> Zero]

\* what the caller's pdf variable may hold before a call of sample_f
PriorPdfs == {Zero, One}

\* ------------------------------------------------------------------------
\* read_float_file: the text of a file, its tokens, their parse as f32
\* ------------------------------------------------------------------------

\* A line of text is a sequence of characters (strings of length one); what
\* BufReader::lines() yields for a line is Ok(text) or Err.
OkLine(text) == [is_ok |-> TRUE, text |-> text]

ErrLine == [is_ok |-> FALSE, text |-> << >>]

DigitChars == <<"0", "1", "2", "3", "4", "5", "6", "7", "8", "9">>

IsDigit(c) == \E i \in 1..Len(DigitChars) : DigitChars[i] = c

DigitValue(c) == (CHOOSE i \in 1..Len(DigitChars) : DigitChars[i] = c) - 1

IsWhitespace(c) == c \in {" ", "\t"}

\* the tokens of s from position i on, cur being the token under way
RECURSIVE SplitFrom(_, _, _)
SplitFrom(s, i, cur) ==
    LET done == IF cur = << >> THEN << >> ELSE << cur >>
    IN  IF i > Len(s) THEN done
        ELSE IF IsWhitespace(s[i]) THEN done \o SplitFrom(s, i + 1, << >>)
        ELSE SplitFrom(s, i + 1, Append(cur, s[i]))

\* line.split_whitespace()
split_whitespace(s) == SplitFrom(s, 1, << >>)

\* the length of the run of digits of t that starts at position i
RECURSIVE DigitRun(_, _)
DigitRun(t, i) ==
    IF i <= Len(t) /\ IsDigit(t[i]) THEN 1 + DigitRun(t, i + 1) ELSE 0

\* the number the n digits of t from position i on write
RECURSIVE DigitsValue(_, _, _)
DigitsValue(t, i, n) ==
    IF n = 0 THEN 0
    ELSE DigitsValue(t, i, n - 1) * 10 + DigitValue(t[i + n - 1])

RECURSIVE Pow10(_)
Pow10(k) == IF k = 0 THEN 1 ELSE 10 * Pow10(k - 1)

\* token.parse::<f32>(): Some(float) for Ok(float), None for Err(_).
\* The grammar of f32::from_str on the characters of the model: an optional
\* sign, then inf, or nan, or digits with an optional point (a digit at
\* least on one side of it) and an optional exponent e [sign] digits.
ParseF32(t) ==
    LET signed == Len(t) >= 1 /\ t[1] \in {"+", "-"}
        neg == Len(t) >= 1 /\ t[1] = "-"
        s0 == IF signed THEN 2 ELSE 1
        rest == SubSeq(t, s0, Len(t))
        ni == DigitRun(t, s0)
        p1 == s0 + ni
        dot == p1 <= Len(t) /\ t[p1] = "."
        p2 == IF dot THEN p1 + 1 ELSE p1
        nf == IF dot THEN DigitRun(t, p2) ELSE 0
        p3 == p2 + nf
        has_exp == p3 <= Len(t) /\ t[p3] \in {"e", "E"}
        p4 == p3 + 1
        exp_signed == has_exp /\ p4 <= Len(t) /\ t[p4] \in {"+", "-"}
        exp_neg == exp_signed /\ t[p4] = "-"
        p5 == IF exp_signed THEN p4 + 1 ELSE p4
        ne == IF has_exp THEN DigitRun(t, p5) ELSE 0
        end == IF has_exp THEN p5 + ne ELSE p3
        well_formed ==
            /\ ni + nf >= 1
            /\ has_exp => ne >= 1
            /\ end = Len(t) + 1
        mantissa ==
            Rat(DigitsValue(t, s0, ni) * Pow10(nf) + DigitsValue(t, p2, nf),
                Pow10(nf))
        exponent == F(Pow10(DigitsValue(t, p5, ne)))
        magnitude == IF exp_neg THEN RDiv(mantissa, exponent)
                                ELSE RMul(mantissa, exponent)
    IN  IF rest = <<"i", "n", "f">>
        THEN Some(IF neg THEN NegInf ELSE Inf)
        ELSE IF rest = <<"n", "a", "n">>
        THEN Some(NaN)
        ELSE IF well_formed
        THEN Some(IF neg THEN RNeg(magnitude) ELSE magnitude)
        ELSE None

\* the warning printed for a token that does not parse
Warning(line_number) == [text |-> "WARNING", line |-> line_number]

\* the error printed for a file that does not open
OpenError == [text |-> "ERROR", line |-> 0]

\* the inner for loop: the tokens of one line, from the j-th on
RECURSIVE ReadTokens(_, _, _, _)
ReadTokens(tokens, j, line_number, acc) ==
    IF j > Len(tokens) THEN acc
    ELSE LET parsed == ParseF32(tokens[j])
         IN  ReadTokens(
                 tokens, j + 1, line_number,
                 IF IsSome(parsed)
                 THEN [acc EXCEPT !.values = Append(@, Unwrap(parsed))]
                 ELSE [acc EXCEPT !.stdout =
                                     Append(@, Warning(line_number))])

\* the outer for loop over reader.lines().enumerate(), from the i-th line
\* on (line_number = i - 1); acc.ret is what the function returns
RECURSIVE ReadLines(_, _, _)
ReadLines(lines, i, acc) ==
    IF i > Len(lines) THEN [acc EXCEPT !.ret = TRUE]
    ELSE IF lines[i].is_ok
    THEN ReadLines(lines, i + 1,
                   ReadTokens(split_whitespace(lines[i].text), 1, i - 1,
                              acc))
    ELSE [acc EXCEPT !.ret = FALSE]

\* read_float_file with a fresh vector in place of the caller's values
read_float_file_fresh(f, vals) ==
    IF f.opens
    THEN ReadLines(f.lines, 1,
                   [ret |-> FALSE, values |-> << >>, stdout |-> << >>])
    ELSE [ret |-> FALSE, values |-> vals, stdout |-> << OpenError >>]

\* read_float_file(filename, values): what it returns, what it leaves in
\* values and what it prints
read_float_file(f, vals) ==
    IF f.opens
    THEN ReadLines(f.lines, 1,
                   [ret |-> FALSE, values |-> vals, stdout |-> << >>])
    ELSE [ret |-> FALSE, values |-> vals, stdout |-> << OpenError >>]

\* the lines of the files of the model: "", "1 x 0.5", "-2<tab>1e1", "x",
\* " .5  1. ", "1,5 +3e-1 inf", and a line that cannot be read
Texts ==
    { << >>,
      <<"1", " ", "x", " ", "0", ".", "5">>,
      <<"-", "2", "\t", "1", "e", "1">>,
      <<"x">>,
      <<" ", ".", "5", " ", " ", "1", ".", " ">>,
      <<"1", ",", "5", " ", "+", "3", "e", "-", "1", " ", "i", "n", "f">> }

LineResults == {OkLine(text) : text \in Texts} \cup {ErrLine}

RECURSIVE SeqsUpTo(_, _)
SeqsUpTo(S, n) ==
    IF n = 0 THEN {<< >>}
    ELSE LET shorter == SeqsUpTo(S, n - 1)
         IN  shorter \cup {Append(q, x) : q \in shorter, x \in S}

Files ==
    {[opens |-> o, lines |-> ls] :
        o \in BOOLEAN, ls \in SeqsUpTo(LineResults, MaxLines)}

\* what the caller's vector holds before the call
PriorValues == {<< >>, << F(7) >>}

\* ------------------------------------------------------------------------
\* State
\* ------------------------------------------------------------------------

VARIABLES
    called,     \* whether compute_scattering_functions has run on si
    tex,        \* what the material's textures evaluate to at the point si
    args,       \* the call's mode and scale_opt
    si,         \* the SurfaceInteraction: its bsdf slot, its shading frame
    bxdfs,      \* the Vec<Bxdf> the call returned
    evaluated_on, \* the shading frame the call's texture evaluations saw
    lobe,       \* a lobe under evaluation
    wo,         \* the outgoing direction of the query
    wi,         \* the caller's wi (sample_f writes it)
    u,          \* the sample of the last sample_f
    pdf,        \* the caller's pdf variable (sample_f writes it)
    ret,        \* the Spectrum the last f or sample_f returned
    pdf_ret,    \* the Float the last pdf returned
    op,         \* the last lobe operation: "none", "f", "sample_f", "pdf"
    normalized, \* the vectors the last lobe operation passed to normalize
    file,       \* the file read_float_file is called on
    values,     \* the caller's Vec<Float>
    old_values, \* what values held when read_float_file was called
    read_ret,   \* what read_float_file returned, None before the call
    stdout      \* what read_float_file printed

factoryVars == <<called, tex, args, si, bxdfs, evaluated_on>>

lobeVars == <<lobe, wo, wi, u, pdf, ret, pdf_ret, op, normalized>>

fileVars == <<file, values, old_values, read_ret, stdout>>

vars ==
    <<called, tex, args, si, bxdfs, evaluated_on,
      lobe, wo, wi, u, pdf, ret, pdf_ret, op, normalized,
      file, values, old_values, read_ret, stdout>>

NoArgs == [mode |-> "Radiance", scale_opt |-> None]

FreshInteraction == [bsdf |-> None, shading |-> "geometric"]

\* a material at a surface intersection, before the integrator calls
\* compute_scattering_functions on it
NoLobeQuery ==
    /\ lobe = DisneyClearCoatNew(One, Rat(1, 10), None)
    /\ wo = V(Zero, Zero, One)
    /\ wi = VZero
    /\ u = NoSample
    /\ pdf = Zero
    /\ ret = SZero
    /\ pdf_ret = Zero
    /\ op = "none"
    /\ normalized = {}

\* no file is being read
NoFileRead ==
    /\ file = [opens |-> FALSE, lines |-> << >>]
    /\ values = << >>
    /\ old_values = << >>
    /\ read_ret = None
    /\ stdout = << >>

Init ==
    /\ called = FALSE
    /\ tex \in Shadings
    /\ args = NoArgs
    /\ si = FreshInteraction
    /\ bxdfs = << >>
    /\ evaluated_on = "none"
    /\ NoFileRead
    /\ NoLobeQuery

\* Self::bump(bump, si): the shading frame of si is perturbed
Bump(s) == [s EXCEPT !.shading = "perturbed"]

\* Compute without the assignment of si.bsdf
ComputeWithoutBsdf ==
    /\ ~called
    /\ \E mode \in Modes, scale_opt \in Scales :
        /\ called' = TRUE
        /\ tex' = tex
        /\ args' = [mode |-> mode, scale_opt |-> scale_opt]
        /\ evaluated_on' = (IF tex.bump_map THEN Bump(si) ELSE si).shading
        /\ bxdfs' = ComputeScatteringFunctions(tex, mode, scale_opt)
        /\ si' = IF tex.bump_map THEN Bump(si) ELSE si
    /\ UNCHANGED lobeVars
    /\ UNCHANGED fileVars

\* one call of compute_scattering_functions(si, mode, _, _, scale_opt)
Compute ==
    /\ ~called
    /\ \E mode \in Modes, scale_opt \in Scales :
        /\ called' = TRUE
        /\ tex' = tex
        /\ args' = [mode |-> mode, scale_opt |-> scale_opt]
        /\ evaluated_on' = (IF tex.bump_map THEN Bump(si) ELSE si).shading
        /\ bxdfs' = ComputeScatteringFunctions(tex, mode, scale_opt)
        /\ si' = [(IF tex.bump_map THEN Bump(si) ELSE si)
                    EXCEPT !.bsdf = Some([eta |-> One, bxdfs |-> << >>])]
    /\ UNCHANGED lobeVars
    /\ UNCHANGED fileVars

Next == Compute

Spec == Init /\ [][Next]_vars

\* ------------------------------------------------------------------------
\* The lobe specification: queries on one lobe
\* ------------------------------------------------------------------------

\* a lobe, a direction pair and the caller's pdf variable before any query
LobeInit ==
    /\ called = FALSE
    /\ tex = DefaultMaterial
    /\ args = NoArgs
    /\ si = FreshInteraction
    /\ bxdfs = << >>
    /\ evaluated_on = "none"
    /\ NoFileRead
    /\ lobe \in TestLobes
    /\ wo \in Directions
    /\ wi \in PriorWis(wo)
    /\ u = NoSample
    /\ pdf \in PriorPdfs
    /\ ret = SZero
    /\ pdf_ret = Zero
    /\ op = "none"
    /\ normalized = {}

\* lobe.f(wo, wi), on the caller's pair or on the pair a sample_f has left
EvalF ==
    /\ op \in {"none", "sample_f"}
    /\ wi # VZero
    /\ ret' = ClearCoatF(lobe, wo, wi)
    /\ normalized' = HalfVectorNormalized(wo, wi)
    /\ op' = "f"
    /\ UNCHANGED <<lobe, wo, wi, u, pdf, pdf_ret>>
    /\ UNCHANGED factoryVars
    /\ UNCHANGED fileVars

\* lobe.sample_f(wo, &mut wi, u, &mut pdf, _)
SampleF ==
    /\ op = "none"
    /\ \E s \in Samples(lobe) :
         LET r == ClearCoatSampleF(lobe, wo, wi, s, pdf)
         IN  /\ u' = s
             /\ ret' = r.ret
             /\ wi' = r.wi
             /\ pdf' = r.pdf
             /\ normalized' = ClearCoatSampleFNormalized(wo, r.wi)
    /\ op' = "sample_f"
    /\ UNCHANGED <<lobe, wo, pdf_ret>>
    /\ UNCHANGED factoryVars
    /\ UNCHANGED fileVars

\* lobe.pdf(wo, wi) on the pair a sample_f has left
EvalPdf ==
    /\ op = "sample_f"
    /\ pdf_ret' = ClearCoatPdf(lobe, wo, wi)
    /\ normalized' = ClearCoatPdfNormalized(wo, wi)
    /\ op' = "pdf"
    /\ UNCHANGED <<lobe, wo, wi, u, pdf, ret>>
    /\ UNCHANGED factoryVars
    /\ UNCHANGED fileVars

LobeNext == EvalF \/ SampleF \/ EvalPdf

LobeSpec == LobeInit /\ [][LobeNext]_vars

\* ------------------------------------------------------------------------
\* The query specification: f on a lobe of any Disney kind and a pair of
\* unit directions, and pdf on a clearcoat lobe
\* ------------------------------------------------------------------------

\* the reflectances of the lobes: a grey, and a colour with a zero component
Reflectances == {SFrom(Rat(1, 2)), <<One, Rat(1, 4), Zero>>}

QueryLobes ==
    UNION {
      {DisneyDiffuseNew(r, sc), DisneySheenNew(r, sc)} \cup
      {DisneyFakeSSNew(r, rough, sc) : rough \in Roughnesses} \cup
      {DisneyRetroNew(r, rough, sc) : rough \in Roughnesses}
      : r \in Reflectances, sc \in Scales } \cup TestLobes

\* the normal, its opposite, and grazing directions (z = 0)
AxisDirections ==
    {V(Zero, Zero, One), V(Zero, Zero, F(-1)),
     V(One, Zero, Zero), V(F(-1), Zero, Zero),
     V(Zero, One, Zero)}

\* a grazing direction off the axes
Grazing == V(Rat(7, 25), Rat(24, 25), Zero)

\* unit directions off the axes
TiltedDirections ==
    {V(Rat(3, 5), Zero, Rat(4, 5)),
     V(Rat(-3, 5), Zero, Rat(4, 5)),
     V(Rat(3, 5), Zero, Rat(-4, 5)),
     Grazing}

UnitDirections == AxisDirections \cup TiltedDirections

\* the length of wi + wo is a rational: zero, or the root of a square
ExactHalfVector(a, b) ==
    LET l2 == vec3_dot_vec3(VAdd(a, b), VAdd(a, b))
    IN  IsSquare(l2.n) /\ IsSquare(l2.d)

AlongNormal(a) == a.x = Zero /\ a.y = Zero

\* The direction pairs a lobe of kind k is queried on: every kind gets
\* pairs that are equal, opposite, both grazing, and one along the normal
\* with one grazing.
PairsFor(k) ==
    CASE k = "DisDiff" ->
           (AxisDirections \X UnitDirections)
             \cup (UnitDirections \X AxisDirections)
      [] k = "DisSheen" ->
           {p \in UnitDirections \X UnitDirections :
               ExactHalfVector(p[1], p[2])}
      [] k \in {"DisSS", "DisRetro"} ->
           {p \in (AxisDirections \cup {Grazing})
                    \X (AxisDirections \cup {Grazing}) :
               \/ ExactHalfVector(p[1], p[2])
               \/ AlongNormal(p[1])
               \/ AlongNormal(p[2])}
      [] k = "DisClearCoat" ->
           {p \in (AxisDirections \cup {Grazing})
                    \X (AxisDirections \cup {Grazing}) :
               ExactHalfVector(p[1], p[2])}

QueryInit ==
    /\ called = FALSE
    /\ tex = DefaultMaterial
    /\ args = NoArgs
    /\ si = FreshInteraction
    /\ bxdfs = << >>
    /\ evaluated_on = "none"
    /\ NoFileRead
    /\ lobe \in QueryLobes
    /\ \E p \in PairsFor(lobe.kind) : wo = p[1] /\ wi = p[2]
    /\ u = NoSample
    /\ pdf = Zero
    /\ ret = SZero
    /\ pdf_ret = Zero
    /\ op = "none"
    /\ normalized = {}

\* lobe.f(wo, wi)
QueryF ==
    /\ op = "none"
    /\ ret' = BxdfF(lobe, wo, wi)
    /\ normalized' = BxdfFNormalized(lobe, wo, wi)
    /\ op' = "f"
    /\ UNCHANGED <<lobe, wo, wi, u, pdf, pdf_ret>>
    /\ UNCHANGED factoryVars
    /\ UNCHANGED fileVars

\* lobe.pdf(wo, wi), on a clearcoat lobe
QueryPdf ==
    /\ op = "none"
    /\ lobe.kind = "DisClearCoat"
    /\ pdf_ret' = ClearCoatPdf(lobe, wo, wi)
    /\ normalized' = ClearCoatPdfNormalized(wo, wi)
    /\ op' = "pdf"
    /\ UNCHANGED <<lobe, wo, wi, u, pdf, ret>>
    /\ UNCHANGED factoryVars
    /\ UNCHANGED fileVars

QueryNext == QueryF \/ QueryPdf

QuerySpec == QueryInit /\ [][QueryNext]_vars

\* ------------------------------------------------------------------------
\* The worker specification: rendering workers call
\* compute_scattering_functions concurrently on one shared material, each on
\* its own interaction; a call advances statement by statement.
\* ------------------------------------------------------------------------

Workers == 1..NumWorkers

\* the materials the workers share (Arc<DisneyMaterial>), all their textures
\* constant
SharedMaterials ==
    {[DefaultMaterial EXCEPT !.bump_map = b, !.thin = t, !.metallic = mt] :
        b \in BOOLEAN, t \in BOOLEAN, mt \in {Zero, One}}

\* in this specification called[w] is the position of worker w in its call,
\* and args, si, bxdfs and evaluated_on hold one value per worker
WorkerInit ==
    /\ called = [w \in Workers |-> "idle"]
    /\ tex \in SharedMaterials
    /\ args = [w \in Workers |-> NoArgs]
    /\ si = [w \in Workers |-> FreshInteraction]
    /\ bxdfs = [w \in Workers |-> << >>]
    /\ evaluated_on = [w \in Workers |-> "none"]
    /\ NoFileRead
    /\ NoLobeQuery

\* worker w enters the call and unpacks scale_opt into use_scale and sc
Enter(w) ==
    /\ called[w] = "idle"
    /\ \E mode \in Modes, scale_opt \in Scales :
         args' = [args EXCEPT ![w] = [mode |-> mode, scale_opt |-> scale_opt]]
    /\ called' = [called EXCEPT ![w] = "entered"]
    /\ UNCHANGED <<tex, si, bxdfs, evaluated_on>>
    /\ UNCHANGED lobeVars
    /\ UNCHANGED fileVars

\* BumpStep without the call of Self::bump
BumpStepSkipped(w) ==
    /\ called[w] = "entered"
    /\ called' = [called EXCEPT ![w] = "bumped"]
    /\ UNCHANGED <<tex, args, si, bxdfs, evaluated_on>>
    /\ UNCHANGED lobeVars
    /\ UNCHANGED fileVars

\* if let Some(ref bump) = self.bump_map { Self::bump(bump, si); }
BumpStep(w) ==
    /\ called[w] = "entered"
    /\ si' = [si EXCEPT ![w] = IF tex.bump_map THEN Bump(si[w]) ELSE si[w]]
    /\ called' = [called EXCEPT ![w] = "bumped"]
    /\ UNCHANGED <<tex, args, bxdfs, evaluated_on>>
    /\ UNCHANGED lobeVars
    /\ UNCHANGED fileVars

\* the evaluate(si) calls of the textures, on the interaction as it is now
Evaluate(w) ==
    /\ called[w] = "bumped"
    /\ evaluated_on' = [evaluated_on EXCEPT ![w] = si[w].shading]
    /\ called' = [called EXCEPT ![w] = "evaluated"]
    /\ UNCHANGED <<tex, args, si, bxdfs>>
    /\ UNCHANGED lobeVars
    /\ UNCHANGED fileVars

\* Push with one lobe vector for all the workers
PushIntoShared(w) ==
    /\ called[w] = "evaluated"
    /\ bxdfs' = [v \in Workers |->
                   ComputeScatteringFunctions(tex, args[w].mode,
                                              args[w].scale_opt)]
    /\ called' = [called EXCEPT ![w] = "pushed"]
    /\ UNCHANGED <<tex, args, si, evaluated_on>>
    /\ UNCHANGED lobeVars
    /\ UNCHANGED fileVars

\* the pushes into the call's own Vec<Bxdf>
Push(w) ==
    /\ called[w] = "evaluated"
    /\ bxdfs' = [bxdfs EXCEPT ![w] =
                   ComputeScatteringFunctions(tex, args[w].mode,
                                              args[w].scale_opt)]
    /\ called' = [called EXCEPT ![w] = "pushed"]
    /\ UNCHANGED <<tex, args, si, evaluated_on>>
    /\ UNCHANGED lobeVars
    /\ UNCHANGED fileVars

\* si.bsdf = Some(..), and the call returns bxdfs
Finish(w) ==
    /\ called[w] = "pushed"
    /\ si' = [si EXCEPT ![w].bsdf = Some([eta |-> One, bxdfs |-> << >>])]
    /\ called' = [called EXCEPT ![w] = "done"]
    /\ UNCHANGED <<tex, args, bxdfs, evaluated_on>>
    /\ UNCHANGED lobeVars
    /\ UNCHANGED fileVars

WorkerNext ==
    \E w \in Workers :
        \/ Enter(w)
        \/ BumpStep(w)
        \/ Evaluate(w)
        \/ Push(w)
        \/ Finish(w)

WorkerSpec == WorkerInit /\ [][WorkerNext]_vars

\* ------------------------------------------------------------------------
\* The file specification: one call of read_float_file
\* ------------------------------------------------------------------------

\* a file and the caller's vector, before the call
FileInit ==
    /\ called = FALSE
    /\ tex = DefaultMaterial
    /\ args = NoArgs
    /\ si = FreshInteraction
    /\ bxdfs = << >>
    /\ evaluated_on = "none"
    /\ NoLobeQuery
    /\ file \in Files
    /\ values \in PriorValues
    /\ old_values = values
    /\ read_ret = None
    /\ stdout = << >>

\* read_float_file(&filename, &mut values)
ReadFloatFile ==
    /\ read_ret = None
    /\ LET r == read_float_file(file, values)
       IN  /\ values' = r.values
           /\ read_ret' = Some(r.ret)
           /\ stdout' = r.stdout
    /\ UNCHANGED <<file, old_values>>
    /\ UNCHANGED factoryVars
    /\ UNCHANGED lobeVars

FileNext == ReadFloatFile

FileSpec == FileInit /\ [][FileNext]_vars

\* ------------------------------------------------------------------------
\* Reading the result of a call
\* ------------------------------------------------------------------------

\* the positions of the lobes of kind k in the returned sequence
Lobes(k) == {i \in 1..Len(bxdfs) : bxdfs[i].kind = k}

Has(k) == Lobes(k) # {}

Count(k) == Cardinality(Lobes(k))

TheLobe(k) == bxdfs[CHOOSE i \in Lobes(k) : TRUE]

Kinds == {bxdfs[i].kind : i \in 1..Len(bxdfs)}

\* (1 - metallic) * (1 - spec_trans) of the textures the call read
DW == DiffuseWeightOf(tex.metallic, tex.spec_trans)

\* the colour the call read, clamped as the call clamps it
TexC == SClampLow(tex.color)

HalfDiffTrans == RDiv(tex.diff_trans, F(2))

\* ------------------------------------------------------------------------
\* Claims
\* ------------------------------------------------------------------------

\* C1: when diffuse_weight = (1 - metallic) * (1 - spec_trans) is exactly 0,
\* the returned sequence holds no Diffuse, no FakeSubsurface, no
\* Retroreflection and no Sheen lobe, whatever thin, flatness,
\* scatter-distance, sheen and the scale are.
C1_ZeroDiffuseWeightSuppresses ==
    (called /\ DW = Zero) =>
        /\ ~Has("DisDiff")
        /\ ~Has("DisSS")
        /\ ~Has("DisRetro")
        /\ ~Has("DisSheen")

\* a call with diffuse_weight = 0 on a thin material with sheen and a scale
C1_Witness ==
    /\ called
    /\ DW = Zero
    /\ tex.thin
    /\ RGt(tex.sheen, Zero)
    /\ IsSome(args.scale_opt)
    /\ Len(bxdfs) > 0

\* The weight that scales a lobe of kind k, as the call computes it from the
\* textures it read (C2 names three of them).
GoverningWeight(k) ==
    CASE k = "DisDiff" ->
           IF tex.thin
           THEN RMul(RMul(DW, RSub(One, tex.flatness)),
                     RSub(One, HalfDiffTrans))
           ELSE DW
      [] k = "DisSS" ->
           RMul(RMul(DW, tex.flatness), RSub(One, HalfDiffTrans))
      [] k = "SpecTrans" -> DW
      [] k = "DisRetro" -> DW
      [] k = "DisSheen" -> RMul(DW, tex.sheen)
      [] k = "MicrofacetRefl" -> One
      [] k = "DisClearCoat" -> tex.clearcoat
      [] k = "MicrofacetTrans" -> tex.spec_trans
      [] k = "LambertianTrans" -> HalfDiffTrans

\* C2 as stated: no lobe is emitted whose governing weight is exactly zero.
C2_Original ==
    called => \A i \in 1..Len(bxdfs) : GoverningWeight(bxdfs[i].kind) # Zero

\* The weight whose test "> 0.0" guards the push of a lobe of kind k; the
\* reflection lobe and the thin surface's Lambertian transmission lobe are
\* pushed without such a test.
GuardsPositive(k) ==
    CASE k \in {"DisDiff", "DisSS", "SpecTrans", "DisRetro"} -> RGt(DW, Zero)
      [] k = "DisSheen" -> RGt(DW, Zero) /\ RGt(tex.sheen, Zero)
      [] k = "DisClearCoat" -> RGt(tex.clearcoat, Zero)
      [] k = "MicrofacetTrans" -> RGt(tex.spec_trans, Zero)
      [] k \in {"MicrofacetRefl", "LambertianTrans"} -> TRUE

\* C2, amended: no lobe is emitted whose guarding weight is zero (or
\* negative): a Diffuse, FakeSubsurface, SpecularTransmission or
\* Retroreflection lobe needs diffuse_weight > 0, a Sheen lobe
\* diffuse_weight > 0 and sheen > 0, a ClearCoat lobe clearcoat > 0, a
\* MicrofacetTransmission lobe spec_trans > 0.
C2_NoLobeWithZeroGuard ==
    called => \A i \in 1..Len(bxdfs) : GuardsPositive(bxdfs[i].kind)

\* a thin call with flatness = 0: the FakeSubsurface lobe is there, and its
\* governing weight diffuse_weight * flatness * (1 - diff_trans / 2) is 0
C2_Witness ==
    /\ called
    /\ tex.thin
    /\ RGt(DW, Zero)
    /\ tex.flatness = Zero
    /\ Has("DisSS")
    /\ SIsBlack(TheLobe("DisSS").r)
    /\ ~SIsBlack(TexC)
    /\ tex.spec_trans = Zero
    /\ ~Has("MicrofacetTrans")

\* C4: a non-thin material with metallic = 0, spec_trans = 0, black
\* scatter-distance, sheen = 0 and clearcoat = 0 returns exactly the kinds
\* Diffuse, Retroreflection and MicrofacetReflection, for any roughness and
\* colour.
C4_ScenarioA ==
    ( /\ called
      /\ ~tex.thin
      /\ tex.metallic = Zero
      /\ tex.spec_trans = Zero
      /\ SIsBlack(tex.scatter_distance)
      /\ tex.sheen = Zero
      /\ tex.clearcoat = Zero )
    => /\ Kinds = {"DisDiff", "DisRetro", "MicrofacetRefl"}
       /\ Len(bxdfs) = 3

C4_Witness ==
    /\ called
    /\ ~tex.thin
    /\ tex.metallic = Zero
    /\ tex.spec_trans = Zero
    /\ SIsBlack(tex.scatter_distance)
    /\ tex.sheen = Zero
    /\ tex.clearcoat = Zero
    /\ tex.roughness = Rat(1, 2)
    /\ ~SIsBlack(TexC)
    /\ Len(bxdfs) = 3

C6_ScenarioC ==
    (called /\ ~tex.thin /\ RGt(tex.spec_trans, Zero)) =>
        /\ Count("MicrofacetTrans") = 1
        /\ TheLobe("MicrofacetTrans").t
             = SScale(tex.spec_trans, SSqrt(TexC))
        /\ Count("MicrofacetRefl") = 1
        /\ TheLobe("MicrofacetTrans").distribution
             = TheLobe("MicrofacetRefl").distribution
        /\ ~Has("LambertianTrans")

\* the colour (0.25, 0.25, 0.25) of scenario C: the tint is spec_trans / 2
C6_Witness ==
    /\ called
    /\ ~tex.thin
    /\ RGt(tex.spec_trans, Zero)
    /\ RLt(tex.spec_trans, One)
    /\ tex.color = SFrom(Rat(1, 4))
    /\ Has("MicrofacetTrans")
    /\ TheLobe("MicrofacetTrans").t = SFrom(RMul(tex.spec_trans, Rat(1, 2)))
    /\ RGt(tex.roughness, Zero)

\* C7: every returned sequence holds exactly one MicrofacetReflection lobe,
\* so it is never empty.
C7_OneReflectionLobe ==
    called => (Count("MicrofacetRefl") = 1 /\ Len(bxdfs) >= 1)

\* metallic = 1 and spec_trans = 1 on a non-thin material without
\* clearcoat, and a black colour
C7_Witness ==
    /\ called
    /\ tex.metallic = One
    /\ tex.spec_trans = One
    /\ SIsBlack(TexC)
    /\ IsSome(args.scale_opt)
    /\ Has("MicrofacetRefl")
    /\ Len(bxdfs) = 2

C12_BsdfPopulated ==
    called => IsSome(si.bsdf)

\* a call on a thin material with a scale, on an interaction whose slot was
\* empty
C12_Witness ==
    /\ called
    /\ tex.thin
    /\ IsSome(args.scale_opt)
    /\ DW = Zero
    /\ IsSome(si.bsdf)
    /\ FreshInteraction.bsdf = None

\* the diffuse_weight local of the call
LocalDiffuseWeight == Locals(tex, args.mode, args.scale_opt).diffuse_weight

InUnit(x) == RLe(Zero, x) /\ RLe(x, One)

\* C14 as stated: diffuse_weight equals (1 - metallic) * (1 - spec_trans)
\* and lies in [0, 1] for every pair of values the two textures return,
\* inside and outside [0, 1].
C14_Original ==
    called =>
        /\ LocalDiffuseWeight
             = RMul(RSub(One, tex.metallic), RSub(One, tex.spec_trans))
        /\ InUnit(LocalDiffuseWeight)

\* C14, amended: diffuse_weight equals (1 - metallic) * (1 - spec_trans) for
\* every pair of values, and lies in [0, 1] when both values lie in [0, 1].
C14_DiffuseWeightInUnit ==
    called =>
        /\ LocalDiffuseWeight
             = RMul(RSub(One, tex.metallic), RSub(One, tex.spec_trans))
        /\ (InUnit(tex.metallic) /\ InUnit(tex.spec_trans))
             => InUnit(LocalDiffuseWeight)

\* metallic = 1/2 and spec_trans = 1/2: diffuse_weight is 1/4
C14_Witness ==
    /\ called
    /\ tex.metallic = Rat(1, 2)
    /\ tex.spec_trans = Rat(1, 2)
    /\ LocalDiffuseWeight = Rat(1, 4)
    /\ Has("DisRetro")

\* C19: when diffuse_weight > 0, a thin material returns one Diffuse lobe
\* weighted diffuse_weight * (1 - flatness) * (1 - dt) * color and one
\* FakeSubsurface lobe weighted diffuse_weight * flatness * (1 - dt) * color
\* (dt the halved diff_trans); a non-thin one with black scatter distance one
\* Diffuse lobe weighted diffuse_weight * color and no FakeSubsurface; a
\* non-thin one with non-black scatter distance one SpecularTransmission
\* lobe, no Diffuse and no FakeSubsurface.  Diffuse and SpecularTransmission
\* are never both returned.
C19_DiffuseBranch ==
    called =>
        /\ ~(Has("DisDiff") /\ Has("SpecTrans"))
        /\ RGt(DW, Zero) =>
             IF tex.thin
             THEN /\ Count("DisDiff") = 1
                  /\ TheLobe("DisDiff").r
                       = SScale(RMul(RMul(DW, RSub(One, tex.flatness)),
                                     RSub(One, HalfDiffTrans)), TexC)
                  /\ Count("DisSS") = 1
                  /\ TheLobe("DisSS").r
                       = SScale(RMul(RMul(DW, tex.flatness),
                                     RSub(One, HalfDiffTrans)), TexC)
                  /\ ~Has("SpecTrans")
             ELSE IF SIsBlack(tex.scatter_distance)
                  THEN /\ Count("DisDiff") = 1
                       /\ TheLobe("DisDiff").r = SScale(DW, TexC)
                       /\ ~Has("DisSS")
                       /\ ~Has("SpecTrans")
                  ELSE /\ Count("SpecTrans") = 1
                       /\ ~Has("DisDiff")
                       /\ ~Has("DisSS")

\* a non-thin call with a non-black scatter distance: the placeholder lobe
C19_Witness ==
    /\ called
    /\ ~tex.thin
    /\ RGt(DW, Zero)
    /\ RLt(DW, One)
    /\ ~SIsBlack(tex.scatter_distance)
    /\ Count("SpecTrans") = 1
    /\ ~Has("DisDiff")
    /\ ~SIsBlack(TexC)

\* color / luminance, or white when the luminance is zero
Tint == IF RGt(SY(TexC), Zero) THEN SDivF(TexC, SY(TexC)) ELSE White

\* C20: when diffuse_weight > 0 there is exactly one Retroreflection lobe,
\* weighted diffuse_weight * color, with the evaluated roughness; a Sheen
\* lobe is returned iff diffuse_weight > 0 and sheen > 0, weighted
\* diffuse_weight * sheen * lerp(sheen_tint, white, tint).
C20_RetroAndSheen ==
    called =>
        /\ RGt(DW, Zero) =>
             /\ Count("DisRetro") = 1
             /\ TheLobe("DisRetro").r = SScale(DW, TexC)
             /\ TheLobe("DisRetro").roughness = tex.roughness
        /\ Has("DisSheen") <=> (RGt(DW, Zero) /\ RGt(tex.sheen, Zero))
        /\ Has("DisSheen") =>
             /\ Count("DisSheen") = 1
             /\ TheLobe("DisSheen").r
                  = SScale(RMul(DW, tex.sheen),
                           SLerp(tex.sheen_tint, White, Tint))

\* a call with sheen on a colour that is not grey, in the placeholder branch
C20_Witness ==
    /\ called
    /\ RGt(DW, Zero)
    /\ RGt(tex.sheen, Zero)
    /\ tex.color = <<One, Rat(1, 4), Zero>>
    /\ ~tex.thin
    /\ ~SIsBlack(tex.scatter_distance)
    /\ Has("DisSheen")
    /\ Has("DisRetro")
    /\ TheLobe("DisSheen").r[1] # TheLobe("DisSheen").r[3]

\* C21: a ClearCoat lobe is returned iff the evaluated clearcoat is > 0; it
\* carries weight = clearcoat and gloss = lerp(clearcoat_gloss, 0.1, 0.001)
\* = (1 - g) * 0.1 + g * 0.001, which for g in [0, 1] lies in [0.001, 0.1]
\* and so is never 1.
C21_ClearCoatEmission ==
    called =>
        /\ Has("DisClearCoat") <=> RGt(tex.clearcoat, Zero)
        /\ Has("DisClearCoat") =>
             /\ Count("DisClearCoat") = 1
             /\ TheLobe("DisClearCoat").weight = tex.clearcoat
             /\ TheLobe("DisClearCoat").gloss
                  = RAdd(RMul(RSub(One, tex.clearcoat_gloss), Rat(1, 10)),
                         RMul(tex.clearcoat_gloss, Rat(1, 1000)))
             /\ InUnit(tex.clearcoat_gloss) =>
                  /\ RLe(Rat(1, 1000), TheLobe("DisClearCoat").gloss)
                  /\ RLe(TheLobe("DisClearCoat").gloss, Rat(1, 10))
                  /\ TheLobe("DisClearCoat").gloss # One

\* clearcoat_gloss = 1: the gloss of the lobe is 0.001
C21_Witness ==
    /\ called
    /\ tex.clearcoat = One
    /\ tex.clearcoat_gloss = One
    /\ Has("DisClearCoat")
    /\ TheLobe("DisClearCoat").gloss = Rat(1, 1000)
    /\ DW = Zero

\* sqrt(1 - 0.9 * anisotropic)
Aspect == FSqrt(RSub(One, RMul(tex.anisotropic, Rat(9, 10))))

\* roughness rescaled by (0.65 * eta - 0.35)
RScaled ==
    RMul(RSub(RMul(Rat(65, 100), tex.eta), Rat(35, 100)), tex.roughness)

\* C22: a MicrofacetTransmission lobe is returned iff spec_trans > 0,
\* whatever diffuse_weight and clearcoat are; on a thin surface its
\* distribution has its own ax, ay from the roughness rescaled by
\* (0.65 * eta - 0.35), with the same aspect; on a non-thin surface it is the
\* distribution of the reflection lobe.
C22_MicrofacetTransmission ==
    called =>
        /\ Has("MicrofacetTrans") <=> RGt(tex.spec_trans, Zero)
        /\ Has("MicrofacetTrans") =>
             /\ Count("MicrofacetTrans") = 1
             /\ TheLobe("MicrofacetTrans").distribution
                  = IF tex.thin
                    THEN TrowbridgeReitzNew(
                            RMax(Rat(1, 1000), RDiv(sqr(RScaled), Aspect)),
                            RMax(Rat(1, 1000), RMul(sqr(RScaled), Aspect)),
                            TRUE)
                    ELSE TheLobe("MicrofacetRefl").distribution

\* a thin, anisotropic surface with clearcoat: the distribution of the
\* transmission lobe is not that of the reflection lobe
C22_Witness ==
    /\ called
    /\ tex.thin
    /\ RGt(tex.spec_trans, Zero)
    /\ RGt(tex.clearcoat, Zero)
    /\ tex.roughness = Rat(1, 2)
    /\ tex.eta = Rat(3, 2)
    /\ tex.anisotropic = Rat(5, 6)
    /\ Has("MicrofacetTrans")
    /\ TheLobe("MicrofacetTrans").distribution
         # TheLobe("MicrofacetRefl").distribution.inner
    /\ RGt(TheLobe("MicrofacetTrans").distribution.alpha_x, Rat(1, 1000))

\* the (alphax, alphay, visible-normal-sampling) of the distributions of the
\* returned lobes
DistributionParams ==
    {bxdfs[i].distribution.inner : i \in Lobes("MicrofacetRefl")}
      \cup {IF tex.thin THEN bxdfs[i].distribution
                        ELSE bxdfs[i].distribution.inner :
               i \in Lobes("MicrofacetTrans")}

\* C23: every microfacet distribution the factory builds has alphax >= 0.001
\* and alphay >= 0.001 and samples visible normals, roughness = 0 and
\* 0.65 * eta - 0.35 = 0 included.
C23_AlphaFloor ==
    called =>
        \A d \in DistributionParams :
            /\ RLe(Rat(1, 1000), d.alpha_x)
            /\ RLe(Rat(1, 1000), d.alpha_y)
            /\ d.sample_visible_area = TRUE

\* a thin surface at the root of 0.65 * eta - 0.35 with a roughness, and
\* one with no roughness: the rescaled distribution sits on the floor
C23_Witness ==
    /\ called
    /\ tex.thin
    /\ RGt(tex.spec_trans, Zero)
    /\ RScaled = Zero
    /\ tex.roughness = Rat(1, 2)
    /\ tex.anisotropic = Rat(5, 6)
    /\ Cardinality(DistributionParams) = 2
    /\ TheLobe("MicrofacetTrans").distribution.alpha_x = Rat(1, 1000)
    /\ TheLobe("MicrofacetTrans").distribution.alpha_y = Rat(1, 1000)

\* the place of a lobe kind in the order of the pushes
KindRank(k) ==
    CASE k \in {"DisDiff", "SpecTrans"} -> 1
      [] k = "DisSS" -> 2
      [] k = "DisRetro" -> 3
      [] k = "DisSheen" -> 4
      [] k = "MicrofacetRefl" -> 5
      [] k = "DisClearCoat" -> 6
      [] k = "MicrofacetTrans" -> 7
      [] k = "LambertianTrans" -> 8

\* each kind at most once, in the order (Diffuse, FakeSubsurface |
\* SpecularTransmission), Retroreflection, Sheen, MicrofacetReflection,
\* ClearCoat, MicrofacetTransmission, LambertianTransmission
InPushOrder ==
    \A i, j \in 1..Len(bxdfs) :
        i < j => KindRank(bxdfs[i].kind) < KindRank(bxdfs[j].kind)

\* every lobe carries the scale of the call, or none does
ScaleUniform ==
    \/ \A i \in 1..Len(bxdfs) : IsSome(bxdfs[i].sc_opt)
    \/ \A i \in 1..Len(bxdfs) : ~IsSome(bxdfs[i].sc_opt)

\* C24 as stated: each kind occurs at most once, the length is between 1
\* and 7, the kinds appear in the fixed order, and the scale is on every
\* lobe or on none.
C24_Original ==
    called =>
        /\ InPushOrder
        /\ Len(bxdfs) >= 1
        /\ Len(bxdfs) <= 7
        /\ ScaleUniform

\* C24, amended: the same, with the length between 1 and 8.
C24_Shape ==
    called =>
        /\ InPushOrder
        /\ Len(bxdfs) >= 1
        /\ Len(bxdfs) <= 8
        /\ ScaleUniform
        /\ \A i \in 1..Len(bxdfs) : bxdfs[i].sc_opt = args.scale_opt

\* a thin surface with sheen, clearcoat and specular transmission, scaled:
\* eight lobes
C24_Witness ==
    /\ called
    /\ tex.thin
    /\ IsSome(args.scale_opt)
    /\ Len(bxdfs) = 8
    /\ Kinds = {"DisDiff", "DisSS", "DisRetro", "DisSheen", "MicrofacetRefl",
                "DisClearCoat", "MicrofacetTrans", "LambertianTrans"}

\* ------------------------------------------------------------------------
\* Claims on read_float_file (under FileSpec)
\* ------------------------------------------------------------------------

IsPrefix(a, b) == Len(a) <= Len(b) /\ SubSeq(b, 1, Len(a)) = a

\* what the call has added to values
Appended == SubSeq(values, Len(old_values) + 1, Len(values))

\* the floats of the tokens of one line that parse, left to right
LineFloats(line) ==
    LET tokens == IF line.is_ok THEN split_whitespace(line.text) ELSE << >>
        parsing == SelectSeq(tokens, LAMBDA t : ParseF32(t) # None)
    IN  [j \in 1..Len(parsing) |-> ParseF32(parsing[j])[1]]

\* the floats of the tokens of a sequence of lines that parse, line by line
RECURSIVE FileFloats(_)
FileFloats(lines) ==
    IF lines = << >> THEN << >>
    ELSE LineFloats(Head(lines)) \o FileFloats(Tail(lines))

AllLinesRead == \A i \in 1..Len(file.lines) : file.lines[i].is_ok

\* the lines before the first one that cannot be read
LinesRead ==
    SubSeq(file.lines, 1,
           IF AllLinesRead THEN Len(file.lines)
           ELSE (CHOOSE i \in 1..Len(file.lines) :
                    /\ ~file.lines[i].is_ok
                    /\ \A k \in 1..(i - 1) : file.lines[k].is_ok) - 1)

\* C25 as stated: after any call the previous contents of values are a
\* prefix of the new contents and what was appended is exactly the tokens of
\* the file that parse as f32, in file order; false with values unchanged
\* when the file cannot be opened, true when every line was read.
C25_Original ==
    read_ret # None =>
        /\ IsPrefix(old_values, values)
        /\ file.opens => Appended = FileFloats(file.lines)
        /\ ~file.opens => read_ret = Some(FALSE) /\ values = old_values
        /\ (file.opens /\ AllLinesRead) => read_ret = Some(TRUE)

\* C25, amended: the call only appends; what it appends is the tokens that
\* parse as f32 of the lines before the first line that cannot be read (of
\* every line when all can be read), in file order, unparseable tokens
\* skipped; false with values unchanged when the file cannot be opened,
\* false when a line cannot be read, true when every line was read.
C25_AppendsParsedTokens ==
    read_ret # None =>
        /\ IsPrefix(old_values, values)
        /\ file.opens => Appended = FileFloats(LinesRead)
        /\ ~file.opens => read_ret = Some(FALSE) /\ values = old_values
        /\ read_ret = Some(file.opens /\ AllLinesRead)

\* "1 x 0.5" then a line that cannot be read, into a vector that holds 7:
\* 1 and 0.5 are appended, x is skipped, false is returned
C25_Witness ==
    /\ read_ret = Some(FALSE)
    /\ file.opens
    /\ Len(file.lines) = 2
    /\ file.lines[1].is_ok
    /\ ~file.lines[2].is_ok
    /\ old_values = << F(7) >>
    /\ values = << F(7), One, Rat(1, 2) >>
    /\ stdout = << Warning(0) >>

\* ------------------------------------------------------------------------
\* Claims on concurrent calls (under WorkerSpec)
\* ------------------------------------------------------------------------

\* what a call with the arguments of worker w leaves when it runs alone on a
\* fresh interaction
AloneBxdfs(w) ==
    ComputeScatteringFunctions(tex, args[w].mode, args[w].scale_opt)

AloneInteraction ==
    [(IF tex.bump_map THEN Bump(FreshInteraction) ELSE FreshInteraction)
        EXCEPT !.bsdf = Some([eta |-> One, bxdfs |-> << >>])]

\* a step leaves the material alone, and leaves alone the interaction, the
\* arguments and the lobes of every worker that does not move in it
StepKeepsOthers ==
    /\ tex' = tex
    /\ \A w \in Workers :
         called'[w] = called[w] =>
            /\ si'[w] = si[w]
            /\ bxdfs'[w] = bxdfs[w]
            /\ args'[w] = args[w]
            /\ evaluated_on'[w] = evaluated_on[w]

\* C13: in every interleaving of concurrent calls on one material, no step
\* changes the material's textures or thin flag, a call writes only its own
\* interaction and its own lobe sequence, and the result of each call is the
\* result of that call run alone.
C13_NoSharedMutation ==
    /\ [][StepKeepsOthers]_vars
    /\ [](\A w \in Workers :
            called[w] = "done" =>
               /\ bxdfs[w] = AloneBxdfs(w)
               /\ si[w] = AloneInteraction)

\* two calls in flight with different scales: one has returned, the other
\* is between its texture evaluations and its pushes
C13_Witness ==
    \E v, w \in Workers :
        /\ v # w
        /\ called[v] = "done"
        /\ called[w] = "evaluated"
        /\ args[v].scale_opt # args[w].scale_opt
        /\ bxdfs[v] = AloneBxdfs(v)
        /\ Len(bxdfs[v]) > 0
        /\ bxdfs[w] = << >>

\* C18: on a material with a bump map, the bump perturbation of the
\* interaction's shading frame happens before the first texture evaluation
\* of the call, so every evaluation sees the perturbed frame; without a bump
\* map nothing is perturbed.
C18_BumpFirst ==
    \A w \in Workers :
        /\ called[w] \in {"idle", "entered", "bumped"}
             => evaluated_on[w] = "none"
        /\ called[w] \in {"evaluated", "pushed", "done"}
             => evaluated_on[w]
                  = (IF tex.bump_map THEN "perturbed" ELSE "geometric")
        /\ ~tex.bump_map => si[w].shading = "geometric"
        /\ (tex.bump_map /\ called[w] \notin {"idle", "entered"})
             => si[w].shading = "perturbed"

\* a call on a bump-mapped material that has evaluated its textures on the
\* perturbed frame, while another call has not bumped yet
C18_Witness ==
    \E v, w \in Workers :
        /\ v # w
        /\ tex.bump_map
        /\ called[w] = "evaluated"
        /\ evaluated_on[w] = "perturbed"
        /\ called[v] = "entered"
        /\ si[v].shading = "geometric"

\* ------------------------------------------------------------------------
\* Claims on f and pdf of the Disney lobes (under QuerySpec)
\* ------------------------------------------------------------------------

\* C11: when wi + wo is exactly the zero vector, the f of DisneyFakeSS,
\* DisneyRetro, DisneySheen and DisneyClearCoat and the pdf of
\* DisneyClearCoat return zero without reaching normalize; normalize is only
\* ever applied to a vector that is not zero.
C11_ZeroHalfVector ==
    /\ (/\ op = "f"
        /\ lobe.kind \in {"DisSS", "DisRetro", "DisSheen", "DisClearCoat"}
        /\ IsZeroVector(VAdd(wi, wo)))
         => (ret = SFrom(Zero) /\ normalized = {})
    /\ (op = "pdf" /\ IsZeroVector(VAdd(wo, wi)))
         => (pdf_ret = Zero /\ normalized = {})
    /\ VZero \notin normalized

\* f of a fake-subsurface lobe with a reflectance on two opposite grazing
\* directions
C11_Witness ==
    /\ op = "f"
    /\ lobe.kind = "DisSS"
    /\ ~SIsBlack(lobe.r)
    /\ wo = V(One, Zero, Zero)
    /\ wi = VNeg(wo)
    /\ ret = SFrom(Zero)
    /\ normalized = {}

\* C15 as stated: on unit directions, grazing ones included, whose sum is
\* not zero, and finite lobe parameters, no lobe returns a value that is not
\* finite: no division by zero occurs in DisneyFakeSS::f, gtr1 or
\* DisneyClearCoat::pdf.
C15_Original ==
    /\ op = "f" => SIsFinite(ret)
    /\ op = "pdf" => IsFinite(pdf_ret)

\* C16 as stated: f(wo, wi) == f(wi, wo) for DisneyDiffuse, DisneyFakeSS,
\* DisneyRetro and DisneySheen, on every pair of unit directions.
C16_Original ==
    (op = "f" /\ lobe.kind \in {"DisDiff", "DisSS", "DisRetro", "DisSheen"})
        => SEq(ret, BxdfF(lobe, wi, wo))

\* C17 as stated: every component of f(wo, wi) is >= 0, for every lobe and
\* every pair of unit directions.
C17_Original ==
    op = "f" => SGe0(ret)

\* ------------------------------------------------------------------------
\* Claims on the lobes (under LobeSpec)
\* ------------------------------------------------------------------------

\* the lobe under evaluation, built with None for Some(S)
Unscaled == [lobe EXCEPT !.sc_opt = None]

\* what the last f or sample_f returns on the lobe built without the scale
UnscaledRet ==
    IF op = "f"
    THEN ClearCoatF(Unscaled, wo, wi)
    ELSE ClearCoatSampleF(Unscaled, wo, wi, u, pdf).ret

\* C3 as stated: the value a lobe built with Some(S) returns, through f and
\* through sample_f, is S times the value the same lobe built with None
\* returns: S is applied exactly once.
C3_Original ==
    (op \in {"f", "sample_f"} /\ IsSome(lobe.sc_opt)) =>
        ret = SMul(Unwrap(lobe.sc_opt), UnscaledRet)

\* C9 as stated: when the wi that sample_f obtains by reflecting wo about
\* the sampled half vector is not in the hemisphere of wo, the call yields
\* exactly zero value and exactly zero pdf, whatever the caller's pdf
\* variable held before.
C9_Original ==
    (op = "sample_f" /\ wo.z # Zero /\ ~vec3_same_hemisphere_vec3(wo, wi)) =>
        (ret = SZero /\ pdf = Zero)

\* C10 as stated: pdf(wo, wi), evaluated on the pair a sample_f has left,
\* equals the pdf that sample_f left in the caller's variable.
C10_Original ==
    (op = "pdf") => (pdf_ret = pdf)

=============================================================================
